---- MODULE Spec2Model ----
(***************************************************************************)
(* Model of src/pythonimp.py: EvolvingVideoCreator.create_evolving_video,  *)
(* EvolvingVideoCreator.evolve_frame and the caller's try/except in        *)
(* create_gui.start_creation.                                              *)
(*                                                                         *)
(* Arrays.  Every array operation of create_evolving_video is a slice      *)
(* along axis 1 (the columns), uniform over rows and channels, so an       *)
(* array is modelled as a function from its column indices 0..n-1 to one   *)
(* sample.  The inputs are drawn from achromatic, row-uniform images and   *)
(* noise fields (R = G = B, every row alike), for which the sample of a    *)
(* column stands for the whole column.  Float samples are kept on the grid *)
(* k/Scale, uint8 samples are 0..255.                                      *)
(*                                                                         *)
(* Objects.  numpy arrays are mutable objects reached through references:  *)
(* heap maps object ids to array contents, and current_frame,              *)
(* evolved_frame and the entries of frames are object ids.                 *)
(***************************************************************************)
EXTENDS Integers, Sequences, FiniteSets, TLC

(* ---------------------------- bounds ---------------------------------- *)
\* largest side of output_size that the caller sets
MaxSide == 3
\* largest fps the caller sets
MaxFps == 3
\* largest duration the caller sets, in units of 1/DurDen seconds
MaxDuration == 4

(* --------------------------- constants -------------------------------- *)
\* durations are multiples of 1/DurDen seconds (duration is a float)
DurDen == 2
\* float samples live on the grid k/Scale; 1.0 is Scale
Scale == 510
\* magnitude of a noise draw on the Scale grid
NoiseAmp == 300
\* the largest uint8
U8Max == 255

NoId == -1

VARIABLES
    pc,              \* position: "idle", "loop", "merge", "done", "raised"
    fps,             \* self.fps
    duration,        \* self.duration, in units of 1/DurDen
    output_size,     \* self.output_size, a pair indexed 0..1 as in the source
    total_frames,    \* local total_frames
    i,               \* loop variable i
    heap,            \* object id -> array contents
    current_frame,   \* local current_frame (object id)
    evolved_frame,   \* local evolved_frame (object id)
    frames,          \* local frames: sequence of object ids
    emitted,         \* the value of i at each frames.append
    overwritten,     \* columns of current_frame assigned so far in this run
    assembler_calls, \* calls of ImageSequenceClip(...) made by this run
    output_file,     \* what this run left at output_path
    status           \* status_label text / exception seen by the caller

vars == <<pc, fps, duration, output_size, total_frames, i, heap, current_frame,
          evolved_frame, frames, emitted, overwritten, assembler_calls,
          output_file, status>>

(* ------------------------- pure helpers ------------------------------- *)
Max(a, b) == IF a >= b THEN a ELSE b

Cols(n) == 0 .. (n - 1)

\* Python slice a[:, lo:hi] of an array with n columns (hi is clipped)
Slice(n, lo, hi) == {c \in Cols(n) : lo <= c /\ c < hi}

\* Python slice a[:, lo:] of an array with n columns
SliceFrom(n, lo) == {c \in Cols(n) : lo <= c}

\* dst[:, cols] = src[:, cols]
AssignCols(dst, src, cols) ==
    [c \in DOMAIN dst |-> IF c \in cols THEN src[c] ELSE dst[c]]

\* the smallest object id not in use
FreshId(h) == CHOOSE k \in 0 .. Cardinality(DOMAIN h) : k \notin DOMAIN h

Store(h, id, a) == [k \in (DOMAIN h) \cup {id} |-> IF k = id THEN a ELSE h[k]]

Free(h, id) == [k \in (DOMAIN h) \ {id} |-> h[k]]

EmptyHeap == [k \in {} |-> 0]

\* int(self.fps * self.duration)
TotalFrames(f, d) == (f * d) \div DurDen

\* number of columns of the resized image: cv2.resize(img, (width, height))
NumCols(size) == size[0]

\* img.astype(np.float32) / 255.0
Normalize(u) == (u * Scale) \div U8Max

NormalizeArr(a) == [c \in DOMAIN a |-> Normalize(a[c])]

\* (x * 255).astype(np.uint8)
ToUint8(x) == ((x * U8Max) \div Scale) % (U8Max + 1)

ToUint8Arr(a) == [c \in DOMAIN a |-> ToUint8(a[c])]

\* int((i / total_frames) * self.output_size[1])
OverwritePosition(k, total, size) == (k * size[1]) \div total

\* max(1, int(self.output_size[1] / total_frames * 2))
OverwriteWidth(total, size) == Max(1, (size[1] * 2) \div total)

\* the columns the if/else of the loop body assigns, for an array of n columns
OverwriteCols(n, pos, width, size) ==
    IF pos + width > size[1]
    THEN LET overflow == (pos + width) - size[1]
         IN  SliceFrom(n, pos) \cup Slice(n, 0, overflow)
    ELSE Slice(n, pos, pos + width)

(* ------------------------- evolve_frame ------------------------------- *)
\* a clip that forgets the lower limit
ClipUpperOnly(x, lo, hi) == IF x > hi THEN hi ELSE x

\* np.clip(x, lo, hi)
Clip(x, lo, hi) == IF x < lo THEN lo ELSE IF x > hi THEN hi ELSE x

\* cv2.cvtColor(evolved, cv2.COLOR_RGB2HSV) on an achromatic pixel of value x:
\* V = max(R,G,B) = x and S = (max - min)/max = 0 (the hue of such a pixel is 0)
RGB2HSV(x) == [h |-> 0, s |-> 0, v |-> x]

\* hsv[:, :, 1] = np.clip(hsv[:, :, 1] * saturation_factor, 0, 1): the
\* saturation of an achromatic pixel is 0 for every saturation_factor; the
\* hue assignment of the line before changes h alone
Saturate(p) == [p EXCEPT !.s = Clip(p.s, 0, Scale)]

\* cv2.cvtColor(hsv, cv2.COLOR_HSV2RGB): the channels lie in [V(1-S), V];
\* with S = 0 all three are V
HSV2RGB(p) == p.v - ((p.v * p.s) \div Scale)

\* BORDER_REFLECT_101 neighbours of column c in an array of n columns
LeftOf(n, c) == IF c > 0 THEN c - 1 ELSE IF n > 1 THEN 1 ELSE 0

RightOf(n, c) == IF c < n - 1 THEN c + 1 ELSE IF n > 1 THEN n - 2 ELSE 0

\* cv2.GaussianBlur(evolved, (3, 3), 0): kernel (1, 2, 1)/4 along the columns
\* (rows are alike, so the vertical pass returns its input), on the grid
GaussianBlur(a) ==
    LET n == Cardinality(DOMAIN a)
    IN  [c \in DOMAIN a |-> (a[LeftOf(n, c)] + 2 * a[c] + a[RightOf(n, c)]) \div 4]

\* evolve_frame(frame, progress) with the draw of np.random.normal given
evolve_frame(frame, noise) ==
    LET evolved == frame
        hsv     == [c \in DOMAIN evolved |-> Saturate(RGB2HSV(evolved[c]))]
        rgb     == [c \in DOMAIN evolved |-> HSV2RGB(hsv[c])]
        clipped == [c \in DOMAIN evolved |-> Clip(rgb[c] + noise[c], 0, Scale)]
    IN  GaussianBlur(clipped)

\* an evolve_frame that writes its result into the array it was given
EvolveInPlace(h, frame) == frame

\* the object evolve_frame writes its result to: frame.copy(), cvtColor,
\* np.clip and GaussianBlur each return a new array
EvolveTarget(h, frame) == FreshId(h)

(* -------------------- create_evolving_video --------------------------- *)
\* an append of the persistent buffer itself, without a copy
SnapshotAlias(h, cur) == cur

\* the object frames.append receives: astype(np.uint8) returns a new array
SnapshotTarget(h, cur) == FreshId(h)

\* a merge whose slice starts one column late
MergeHalfOpenOff(cur, ev, pos, width, size) ==
    AssignCols(cur, ev, OverwriteCols(Cardinality(DOMAIN cur), pos + 1, width, size))

\* the merged contents of current_frame after the if/else of the loop body
MergeFrames(cur, ev, pos, width, size) ==
    AssignCols(cur, ev, OverwriteCols(Cardinality(DOMAIN cur), pos, width, size))

\* a call that hands the frames over last to first
ClipCallReversed(frs, h, f) ==
    [frames |-> [k \in 1 .. Len(frs) |-> h[frs[Len(frs) + 1 - k]]], fps |-> f]

\* ImageSequenceClip([frame[:, :, ::-1] for frame in frames], fps=self.fps):
\* the channel reversal of an achromatic pixel returns the pixel
ClipCall(frs, h, f) ==
    [frames |-> [k \in 1 .. Len(frs) |-> h[frs[k]]], fps |-> f]

\* a loop that stops one index early
LoopHasNextOffByOne(k, total) == k < total - 1

\* range(total_frames) has an index left when the loop is at k
LoopHasNext(k, total) == k < total

(* ---------------------------- inputs ---------------------------------- *)
Sizes == {[k \in 0 .. 1 |-> IF k = 0 THEN w ELSE h] : w \in 1 .. MaxSide, h \in 1 .. MaxSide}

\* decoded and resized source images (uint8), n columns
SourceImages(n) ==
    { [c \in Cols(n) |-> U8Max],
      [c \in Cols(n) |-> 0],
      [c \in Cols(n) |-> IF c % 2 = 0 THEN 0 ELSE U8Max] }

\* draws of np.random.normal(0, self.evolution_strength, evolved.shape)
NoiseFields(n) ==
    { [c \in Cols(n) |-> IF c % 2 = 0 THEN NoiseAmp ELSE -NoiseAmp],
      [c \in Cols(n) |-> IF c % 2 = 0 THEN -NoiseAmp ELSE NoiseAmp] }

(* ---------------------------- actions --------------------------------- *)
\* the creator after __init__; the defaults (30 fps, 10 s, 512 x 512) are
\* scaled into the bounds: 1 fps, 1 s, and every size up to MaxSide
Init ==
    /\ pc = "idle"
    /\ fps = 1
    /\ duration = DurDen
    /\ output_size \in Sizes
    /\ total_frames = 0
    /\ i = 0
    /\ heap = EmptyHeap
    /\ current_frame = NoId
    /\ evolved_frame = NoId
    /\ frames = << >>
    /\ emitted = << >>
    /\ overwritten = {}
    /\ assembler_calls = << >>
    /\ output_file = "none"
    /\ status = "Ready"

Callable == pc \in {"idle", "done", "raised"}

\* the locals of create_evolving_video end with the call
DropLocals ==
    /\ total_frames' = 0
    /\ i' = 0
    /\ heap' = EmptyHeap
    /\ current_frame' = NoId
    /\ evolved_frame' = NoId
    /\ frames' = << >>

\* start_creation with a path missing: the early return
StartCreationNoFiles ==
    /\ Callable
    /\ status' = "Please select input and output files"
    /\ UNCHANGED <<pc, fps, duration, output_size, total_frames, i, heap,
                   current_frame, evolved_frame, frames, emitted, overwritten,
                   assembler_calls, output_file>>

\* start_creation, then create_evolving_video up to the head of the loop
StartCreation(f, d, img) ==
    /\ Callable
    /\ fps' = f
    /\ duration' = d
    /\ total_frames' = TotalFrames(f, d)
    /\ frames' = << >>
    /\ heap' = Store(Store(EmptyHeap, 0, img), 1, NormalizeArr(img))
    /\ current_frame' = 1
    /\ evolved_frame' = NoId
    /\ i' = 0
    /\ emitted' = << >>
    /\ overwritten' = {}
    /\ assembler_calls' = << >>
    /\ output_file' = "none"
    /\ status' = "Creating video... Please wait"
    /\ pc' = "loop"
    /\ UNCHANGED output_size

\* start_creation with an unreadable image: cv2.imread returns None and
\* cv2.resize raises; the except clause shows the error
StartCreationBadImage(f, d) ==
    /\ Callable
    /\ fps' = f
    /\ duration' = d
    /\ DropLocals
    /\ emitted' = << >>
    /\ overwritten' = {}
    /\ assembler_calls' = << >>
    /\ output_file' = "none"
    /\ status' = "Error: cv2.resize"
    /\ pc' = "raised"
    /\ UNCHANGED output_size

\* evolved_frame = self.evolve_frame(current_frame, i/total_frames)
Evolve(noise) ==
    /\ pc = "loop"
    /\ LoopHasNext(i, total_frames)
    /\ LET target == EvolveTarget(heap, current_frame)
           h1     == Store(heap, target, evolve_frame(heap[current_frame], noise))
       IN  /\ heap' = IF evolved_frame \in (DOMAIN h1) \ {target, current_frame}
                      THEN Free(h1, evolved_frame)
                      ELSE h1
           /\ evolved_frame' = target
    /\ pc' = "merge"
    /\ UNCHANGED <<fps, duration, output_size, total_frames, i, current_frame,
                   frames, emitted, overwritten, assembler_calls, output_file,
                   status>>

\* the overwrite, frame_to_save and frames.append of one iteration
Merge ==
    /\ pc = "merge"
    /\ LET pos    == OverwritePosition(i, total_frames, output_size)
           width  == OverwriteWidth(total_frames, output_size)
           merged == MergeFrames(heap[current_frame], heap[evolved_frame],
                                 pos, width, output_size)
           h1     == Store(heap, current_frame, merged)
           saved  == SnapshotTarget(h1, current_frame)
       IN  /\ heap' = Store(h1, saved, ToUint8Arr(merged))
           /\ frames' = Append(frames, saved)
           /\ overwritten' = overwritten \cup
                  OverwriteCols(NumCols(output_size), pos, width, output_size)
    /\ emitted' = Append(emitted, i)
    /\ i' = i + 1
    /\ pc' = "loop"
    /\ UNCHANGED <<fps, duration, output_size, total_frames, current_frame,
                   evolved_frame, assembler_calls, output_file, status>>

\* ImageSequenceClip(...) and write_videofile succeed; return output_path
AssembleOk ==
    /\ pc = "loop"
    /\ ~LoopHasNext(i, total_frames)
    /\ frames # << >>
    /\ assembler_calls' = Append(assembler_calls, ClipCall(frames, heap, fps))
    /\ output_file' = "complete"
    /\ status' = "Video created successfully!"
    /\ pc' = "done"
    /\ DropLocals
    /\ UNCHANGED <<fps, duration, output_size, emitted, overwritten>>

\* ImageSequenceClip(...) or write_videofile raises; an empty list makes the
\* constructor raise (it reads sequence[0]) before anything is written
AssembleFail(left) ==
    /\ pc = "loop"
    /\ ~LoopHasNext(i, total_frames)
    /\ frames = << >> => left = "none"
    /\ assembler_calls' = Append(assembler_calls, ClipCall(frames, heap, fps))
    /\ output_file' = left
    /\ status' = "Error: ImageSequenceClip"
    /\ pc' = "raised"
    /\ DropLocals
    /\ UNCHANGED <<fps, duration, output_size, emitted, overwritten>>

Next ==
    \/ StartCreationNoFiles
    \/ \E f \in 1 .. MaxFps, d \in 0 .. MaxDuration :
          \E img \in SourceImages(NumCols(output_size)) : StartCreation(f, d, img)
    \/ \E f \in 1 .. MaxFps, d \in 0 .. MaxDuration : StartCreationBadImage(f, d)
    \/ \E noise \in NoiseFields(NumCols(output_size)) : Evolve(noise)
    \/ Merge
    \/ AssembleOk
    \/ \E left \in {"none", "partial"} : AssembleFail(left)

Spec == Init /\ [][Next]_vars

(* ------------------- quantities the claims speak of ------------------- *)
\* floor(fps x durationSeconds), from the attributes of the creator
FloorFrames == CHOOSE t \in 0 .. (fps * duration) :
                   t * DurDen <= fps * duration /\ fps * duration < (t + 1) * DurDen

\* W: the extent the scan position and width are derived from
ScanW == output_size[1]

\* overwritePosition = floor((frameIndex / totalFrames) x W), at the current i
ScanPosition == CHOOSE p \in 0 .. ScanW :
                    p * total_frames <= i * ScanW /\ i * ScanW < (p + 1) * total_frames

\* overwriteWidth = max(1, floor(W / totalFrames x 2))
ScanWidth == CHOOSE w \in 1 .. (2 * ScanW) :
                 \/ w = 1 /\ 2 * ScanW < total_frames
                 \/ w * total_frames <= 2 * ScanW /\ 2 * ScanW < (w + 1) * total_frames

ScanOverflow == (ScanPosition + ScanWidth) - ScanW

InRun == pc \in {"loop", "merge"}

AllColumns == Cols(NumCols(output_size))

\* the frame appended by the step that leads to the primed state
LastFrame(h, frs) == h[frs[Len(frs)]]

(* ------------------------------ C1 ------------------------------------ *)
\* C1: for fps > 0 and duration > 0 one run computes total_frames =
\* floor(fps x duration) and appends exactly that many frames, one per
\* index 0 .. total_frames-1, in increasing index order: inside the loop the
\* frames appended so far are those of indices 0 .. i-1, and once the
\* assembler has been called the indices are exactly 0 .. floor(..)-1.
C1_ExactlyTotalFrames ==
    (fps > 0 /\ duration > 0) =>
        /\ InRun => /\ total_frames = FloorFrames
                    /\ i <= total_frames
                    /\ Len(frames) = i
                    /\ emitted = [k \in 1 .. i |-> k - 1]
        /\ assembler_calls # << >> =>
                    /\ emitted = [k \in 1 .. FloorFrames |-> k - 1]
                    /\ Len(assembler_calls[1].frames) = FloorFrames

\* a finished run of fps 3 and 1.5 s: floor(4.5) = 4 frames
C1_Witness ==
    /\ pc = "done"
    /\ fps * duration = 9
    /\ Len(emitted) = 4

(* ------------------------------ C2 ------------------------------------ *)
\* C2: in a step with overwritePosition + overwriteWidth > W the emitted
\* frame has the evolved buffer's samples in columns [overwritePosition, W)
\* and [0, overflow), and the pre-step buffer's samples in every other column.
C2_WrapAround ==
    [][ (pc = "merge" /\ ScanPosition + ScanWidth > ScanW) =>
          \A c \in AllColumns :
              LastFrame(heap', frames')[c] =
                  IF (ScanPosition <= c /\ c < ScanW) \/ c < ScanOverflow
                  THEN ToUint8(heap[evolved_frame][c])
                  ELSE ToUint8(heap[current_frame][c]) ]_vars

(* ------------------------------ C3 ------------------------------------ *)
\* C3: after all total_frames >= 1 steps of a run every column of the
\* persistent buffer has been overwritten by at least one step.
C3_FullCoverage ==
    (pc = "loop" /\ total_frames >= 1 /\ i = total_frames) => overwritten = AllColumns

(* ------------------------------ C4 ------------------------------------ *)
\* C4: a run whose total_frames is below 1 fails before generation: it
\* emits no frame, never calls the assembler, writes no file and does not
\* end in success.
C4_InvalidConfiguration ==
    (pc # "idle" /\ fps * duration < DurDen) =>
        /\ emitted = << >>
        /\ assembler_calls = << >>
        /\ output_file = "none"
        /\ pc # "done"

(* ------------------------------ C5 ------------------------------------ *)
\* C5: a step with overwritePosition + overwriteWidth <= W replaces exactly
\* the columns [overwritePosition, overwritePosition + overwriteWidth) of
\* the persistent buffer by the evolved buffer's and leaves every other
\* column as it was (W is self.output_size[1]).
C5_NonWrapMerge ==
    [][ (pc = "merge" /\ ScanPosition + ScanWidth <= ScanW) =>
          /\ current_frame' = current_frame
          /\ \A c \in AllColumns :
                heap'[current_frame][c] =
                    IF ScanPosition <= c /\ c < ScanPosition + ScanWidth
                    THEN heap[evolved_frame][c]
                    ELSE heap[current_frame][c] ]_vars

\* a non-wrapping step has replaced a column and kept another one
C5_Witness ==
    /\ pc = "loop"
    /\ i = 1
    /\ total_frames >= 2
    /\ OverwriteWidth(total_frames, output_size) <= output_size[1]
    /\ \E c, d \in AllColumns :
          /\ c \in overwritten
          /\ d \notin overwritten
          /\ heap[current_frame][c] = heap[evolved_frame][c]
          /\ heap[current_frame][d] # heap[evolved_frame][d]

(* ------------------------------ C6 ------------------------------------ *)
\* C6: when the assembler fails after the frames were generated, the error
\* reaches the caller and the generated frames stay available.
C6_FramesKeptOnFailure ==
    (pc = "raised" /\ status = "Error: ImageSequenceClip") =>
        Len(frames) = Len(emitted)

(* ------------------------------ C7 ------------------------------------ *)
\* C7: a successful run calls the assembler exactly once, after the last
\* frame was generated, with the frames in the order of their indices and
\* with the fps that total_frames was computed from.
C7_AssemblerHandoff ==
    [][ /\ pc' = "done" => Len(assembler_calls') = 1
        /\ (pc' = "done" /\ pc # "done") =>
              /\ assembler_calls = << >>
              /\ i = total_frames
              /\ total_frames = FloorFrames
              /\ emitted = [k \in 1 .. total_frames |-> k - 1]
              /\ assembler_calls'[1].frames =
                     [k \in 1 .. total_frames |-> heap[frames[k]]]
              /\ assembler_calls'[1].fps = fps
              /\ fps' = fps /\ duration' = duration ]_vars

\* a successful run of several frames that differ
C7_Witness ==
    /\ pc = "done"
    /\ Len(assembler_calls) = 1
    /\ Len(assembler_calls[1].frames) >= 2
    /\ assembler_calls[1].frames[1] # assembler_calls[1].frames[2]

(* ------------------------------ C8 ------------------------------------ *)
\* C8: every sample of the persistent buffer and of the evolved buffer is
\* in [0, 1], and every sample of an emitted frame is the 8-bit value
\* 0..255 of a sample in [0, 1].
C8_SampleDomain ==
    InRun =>
        /\ \A c \in AllColumns : heap[current_frame][c] \in 0 .. Scale
        /\ evolved_frame # NoId =>
               \A c \in AllColumns : heap[evolved_frame][c] \in 0 .. Scale
        /\ \A k \in 1 .. Len(frames) : \A c \in AllColumns :
               \E x \in 0 .. Scale : heap[frames[k]][c] = (x * U8Max) \div Scale

\* a column clamped at 0.0 in the first frame has reached 1.0 later on
C8_Witness ==
    /\ pc = "loop"
    /\ Len(frames) >= 3
    /\ \E c \in overwritten :
          /\ heap[frames[1]][c] = 0
          /\ heap[current_frame][c] = Scale
          /\ heap[frames[Len(frames)]][c] = U8Max

(* ------------------------------ C9 ------------------------------------ *)
\* C9: the frame appended by a step is a copy of the persistent buffer
\* after that step's merge, and no later step changes an appended frame.
C9_SnapshotIndependence ==
    [][ /\ pc = "merge" =>
              /\ Len(frames') = Len(frames) + 1
              /\ LastFrame(heap', frames') = ToUint8Arr(heap'[current_frame'])
        /\ InRun /\ pc' \in {"loop", "merge"} =>
              \A k \in 1 .. Len(frames) :
                  /\ frames'[k] = frames[k]
                  /\ heap'[frames'[k]] = heap[frames[k]] ]_vars

\* the buffer has moved on from the first frame, which is kept
C9_Witness ==
    /\ pc = "loop"
    /\ Len(frames) >= 2
    /\ heap[frames[1]] # ToUint8Arr(heap[current_frame])
    /\ heap[frames[1]] # heap[frames[2]]

(* ------------------------------ C10 ----------------------------------- *)
\* C10: the call of evolve_frame leaves the persistent buffer as it was;
\* within a run the persistent buffer changes in the merge alone.
C10_TransformPurity ==
    [][ /\ (pc = "loop" /\ pc' = "merge") =>
              /\ current_frame' = current_frame
              /\ heap'[current_frame] = heap[current_frame]
        /\ (InRun /\ pc' \in {"loop", "merge"}) =>
              /\ current_frame' = current_frame
              /\ heap'[current_frame] # heap[current_frame] => pc = "merge" ]_vars

\* evolve_frame has returned a buffer that differs from its input
C10_Witness ==
    /\ pc = "merge"
    /\ heap[evolved_frame] # heap[current_frame]

====
